---- MODULE Spec2Model ----
(***************************************************************************)
(* MicrophoneStream (src/src/index.ts): one session object, the audio      *)
(* graph it builds on its AudioContext, the setStream() calls in flight,   *)
(* the timers and audio callbacks that feed it, and the events it          *)
(* dispatches.                                                             *)
(***************************************************************************)
EXTENDS Integers, Sequences, FiniteSets

\* ---------------------------------------------------------------- bounds
MaxCalls   == 2    \* setStream() calls made on the session, constructor's included
MaxData    == 1    \* blocks delivered as data events or posted by the worklet
MaxDestroy == 2    \* destroy() calls made on the session

\* ------------------------------------------------------------- constants
Null    == 0       \* a null field
MockObj == 0 - 1   \* the object literals setupMockAudioProcessing installs
Stream  == 1       \* a MediaStream the caller passed; streams differ in nothing the code reads
Dest    == 0 - 2   \* context.destination
MaxNodes == 3 * MaxCalls   \* a call creates at most a source, a worklet node and a processor
CallIds == 1 .. MaxCalls
NodeIds == 1 .. MaxNodes
MockSampleRate == 44100     \* sampleRate of the stand-in context and of the test double
SampleRates == {MockSampleRate, 48000}
\* the rate a real AudioContext reports here: the hardware's, not the stand-in's
HardwareSampleRate == CHOOSE r \in SampleRates : r # MockSampleRate
\* the errors a setStream() call can end with: one the platform raised
\* (resume() rejected, createMediaStreamSource threw), or the Error setStream
\* builds itself when no backend is allowed
\* the frames of one render quantum: the length of inputs[0][0] in process()
RenderQuantum == 128
\* opts.bufferSize ?? 4096
DefaultBufferSize == 4096
\* the sizes createScriptProcessor documents, and one that is none of them
ValidBufferSizes == {256, 512, 1024, 2048, 4096, 8192, 16384}
BufferSizes == {1000, 2048}

\* the context the constructor stores in this.context
ConstructedContext == 1

NoError == "none"
PlatformError == "platform"
FallbackDisabled == "ScriptProcessorNode fallback is disabled"

VARIABLES
    opts,      \* what the constructor fixed: options and environment facts
    self,      \* the mutable fields of the MicrophoneStream object
    context,   \* the AudioContext: state and sampleRate
    graph,     \* nodes created on the context, their connections, interval timers, streams with live tracks
    port,      \* messages posted by worklet processors, not yet handled by onmessage
    calls,     \* position of every setStream() call
    events,    \* events dispatched so far, and the constructor's pending format timer
    hist       \* which public calls were made (history, not read by the code)

vars == <<opts, self, context, graph, port, calls, events, hist>>

World == [opts |-> opts, self |-> self, context |-> context, graph |-> graph,
          port |-> port, calls |-> calls, events |-> events, hist |-> hist]

\* a call suspended at an await; the fate of a context.resume() promise is
\* fixed when resume() is called, the continuation runs when it settles
Pending == {"resume", "resumeRejects", "workletResume", "workletResumeRejects", "addModule"}

\* ------------------------------------------------------------ primitives
\* dispatchEvent(new Event(type)); a 'close' event runs the listeners that
\* setupMockAudioProcessing registered, which clear their intervals
dispatchEvent(w, type) ==
    LET w1 == [w EXCEPT !.events[type] = @ + 1]
    IN  IF type = "close" THEN [w1 EXCEPT !.graph.intervals = 0] ELSE w1

\* nodes the session still refers to or that still have a connection; any
\* other node is garbage and has no behaviour left
Live(w) ==
    {w.self.audioInput, w.self.processor, w.self.workletNode}
        \cup {e[1] : e \in w.graph.edges} \cup {e[2] : e \in w.graph.edges}

\* the identity given to the next node created on the context
newNode(w) ==
    LET used == w.graph.sources \cup w.graph.procs \cup w.graph.worklets
    IN  CHOOSE id \in NodeIds : id \notin used /\ \A j \in NodeIds : j < id => j \in used

\* garbage collection of the nodes not Live
collect(w) ==
    [w EXCEPT !.graph.sources = @ \cap Live(w),
              !.graph.procs = @ \cap Live(w),
              !.graph.worklets = @ \cap Live(w)]

\* node.disconnect(): drops every outgoing connection of the node
disconnect(w, n) ==
    IF n \in NodeIds THEN [w EXCEPT !.graph.edges = {e \in @ : e[1] # n}] ELSE w

\* a.connect(b)
connect(w, a, b) ==
    IF a \in NodeIds THEN [w EXCEPT !.graph.edges = @ \cup {<<a, b>>}] ELSE w

resolve(w, c) ==
    [w EXCEPT !.calls[c] = "resolved",
              !.hist.life = IF @ = "Destroyed" THEN @ ELSE "Attached"]

\* the promise of call c rejects with error err
reject(w, c, err) == [w EXCEPT !.calls[c] = "rejected", !.hist.thrown = err]

await(w, c, what) == [w EXCEPT !.calls[c] = what]

\* dispatchEvent(new ErrorEvent('error', {message: error.message, error}))
dispatchError(w, err) == [dispatchEvent(w, "error") EXCEPT !.events.message = err]

\* catchAndRethrow with the dispatch left out
rethrowOnly(w, c, err) == reject(w, c, err)

\* catch block of setStream: dispatch the error event, rethrow
catchAndRethrow(w, c, err) == reject(dispatchError(w, err), c, err)

\* context.resume(): takes effect when called, or is refused
resume(w, ok) == IF ok THEN [w EXCEPT !.context.state = "running"] ELSE w

\* ------------------------------------------------------- backend set-up
setupMockAudioProcessing(w) ==
    [w EXCEPT !.self.stream = MockObj,
              !.self.audioInput = MockObj,
              !.self.processor = MockObj,
              !.graph.intervals = @ + 1]

setupScriptProcessor(w) ==
    IF w.self.audioInput = Null THEN w
    ELSE LET id == newNode(w)
             w1 == [w EXCEPT !.self.processor = id,
                             !.graph.procs = @ \cup {id}]
         IN  connect(connect(w1, w1.self.audioInput, id), id, Dest)

\* workletFailed without the test of allowScriptProcessorFallback
workletFailedFallsBack(w, c) == resolve(setupScriptProcessor(w), c)

\* workletFailed with the worklet error passed on to the outer catch
workletFailedRethrows(w, c) == catchAndRethrow(w, c, PlatformError)

\* the inner try/catch of setStream around setupAudioWorklet: fall back, or
\* throw into the outer catch
workletFailed(w, c) ==
    IF w.opts.allowScriptProcessorFallback
    THEN resolve(setupScriptProcessor(w), c)
    ELSE catchAndRethrow(w, c, FallbackDisabled)

\* setupAudioWorklet up to its first await
setupAudioWorklet(w, c, resumeOk) ==
    IF w.self.audioInput = Null THEN resolve(w, c)
    ELSE IF w.context.state = "closed" THEN workletFailed(w, c)
    ELSE IF w.context.state = "suspended"
         THEN await(resume(w, resumeOk), c,
                    IF resumeOk THEN "workletResume" ELSE "workletResumeRejects")
    ELSE await(w, c, "addModule")

\* setupAudioWorklet after 'await this.context.resume()'
workletResumed(w, c, ok) ==
    IF ok THEN await(w, c, "addModule") ELSE workletFailed(w, c)

\* setupAudioWorklet after 'await addModule(...)': create and connect the node
moduleAdded(w, c, ok, nodeOk) ==
    IF ~ok \/ ~nodeOk THEN workletFailed(w, c)
    ELSE LET id == newNode(w)
             w1 == [w EXCEPT !.self.workletNode = id,
                             !.graph.worklets = @ \cup {id}]
         IN  IF w1.self.audioInput = Null
             THEN workletFailed(w1, c)
             ELSE resolve(connect(connect(w1, w1.self.audioInput, id), id, Dest), c)

\* attach on a context created for the attach
attachOnNewContext(w, c, createThrows, resumeOk) ==
    LET w1 == [w EXCEPT !.context.id = @ + 1, !.self.stream = Stream]
    IN  IF createThrows THEN catchAndRethrow(w1, c, PlatformError)
        ELSE LET id == newNode(w1)
                 w2 == [w1 EXCEPT !.self.audioInput = id,
                                  !.graph.sources = @ \cup {id}]
             IN  IF w2.opts.workletSupported THEN setupAudioWorklet(w2, c, resumeOk)
                 ELSE IF ~w2.opts.allowScriptProcessorFallback
                      THEN catchAndRethrow(w2, c, FallbackDisabled)
                 ELSE resolve(setupScriptProcessor(w2), c)

\* setStream from 'this.stream = stream' to the first await or the end
attach(w, c, createThrows, resumeOk) ==
    LET w1 == [w EXCEPT !.self.stream = Stream]
    IN  IF createThrows THEN catchAndRethrow(w1, c, PlatformError)
        ELSE LET id == newNode(w1)
                 w2 == [w1 EXCEPT !.self.audioInput = id,
                                  !.graph.sources = @ \cup {id}]
             IN  IF w2.opts.workletSupported THEN setupAudioWorklet(w2, c, resumeOk)
                 ELSE IF ~w2.opts.allowScriptProcessorFallback
                      THEN catchAndRethrow(w2, c, FallbackDisabled)
                 ELSE resolve(setupScriptProcessor(w2), c)

\* resumed with a refused resume() taken for a granted one
resumedAnyway(w, c, ok, createThrows, resumeOk) ==
    attach(w, c, createThrows, resumeOk)

\* setStream after 'await this.context.resume()'
resumed(w, c, ok, createThrows, resumeOk) ==
    IF ok THEN attach(w, c, createThrows, resumeOk)
    ELSE catchAndRethrow(w, c, PlatformError)

\* setStream(stream) from its entry to the first await or the end; call c
\* passes a stream of its own, whose tracks are live
setStream(w, c, createThrows, resumeOk) ==
    LET w0 == [w EXCEPT !.graph.liveStreams = @ + 1]
    IN  IF w0.opts.sourceFnThrows THEN catchAndRethrow(w0, c, PlatformError)
        ELSE IF w0.opts.isNodeEnvironment
             THEN resolve(setupMockAudioProcessing(w0), c)
        ELSE IF w0.context.state = "suspended"
             THEN await(resume(w0, resumeOk), c,
                        IF resumeOk THEN "resume" ELSE "resumeRejects")
        ELSE attach(w0, c, createThrows, resumeOk)

\* ------------------------------------------------------ public controls
\* pauseRecording as a toggle of the recording flag
pauseToggles(w) == [w EXCEPT !.self.recording = ~@, !.hist.pauseWindow = ~@]

pauseRecording(w) == [w EXCEPT !.self.recording = FALSE, !.hist.pauseWindow = TRUE]

resumeRecording(w) == [w EXCEPT !.self.recording = TRUE, !.hist.pauseWindow = FALSE]

\* context.suspend() and context.close() change the state of an AudioContext;
\* the stand-in object the constructor builds when there is no AudioContext
\* class has empty suspend/close and keeps state 'running'; hist.closes
\* counts the close() calls made on the context
\* A suspend() the context refuses rejects its promise, and the catch
\* callback of stop() logs the error with console.error
suspend(w, ok) ==
    IF w.opts.standIn \/ ~ok THEN w ELSE [w EXCEPT !.context.state = "suspended"]

close(w) ==
    LET w1 == [w EXCEPT !.hist.closes = @ + 1]
    IN  IF w.opts.standIn THEN w1 ELSE [w1 EXCEPT !.context.state = "closed"]

\* the node whose disconnect() throws in a teardown, if any does: stop() and
\* destroy() call disconnect() with no try around it
ThrowAt == {"none", "audioInput", "processor", "workletNode"}

\* disconnect() can throw only where it is called, on a node the session
\* holds; the object literals of setupMockAudioProcessing have an empty one.
\* Sessions with a throwing disconnect() are those of a browser without
\* AudioWorklet
CanThrow(w, t) ==
    IF t = "none" THEN TRUE
    ELSE ~w.opts.workletSupported /\ w.self[t] \in NodeIds

\* the messages a worklet has posted and the session has not handled when
\* the session lets go of its worklet node were posted by a detached backend
detach(w) ==
    IF w.self.workletNode \notin NodeIds THEN w
    ELSE [w EXCEPT !.port = [i \in DOMAIN @ |-> [@[i] EXCEPT !.detached = TRUE]]]

\* the three 'if (node) { node.disconnect(); node = null; }' blocks that
\* open stop() and destroy(), up to the disconnect() that throws
disconnectNodes(w, t) ==
    IF t = "audioInput" THEN w
    ELSE LET w1 == [disconnect(w, w.self.audioInput) EXCEPT !.self.audioInput = Null]
         IN  IF t = "processor" THEN w1
             ELSE LET w2 == [disconnect(w1, w1.self.processor)
                                EXCEPT !.self.processor = Null]
                  IN  IF t = "workletNode" THEN w2
                      ELSE [detach(disconnect(w2, w2.self.workletNode))
                               EXCEPT !.self.workletNode = Null]

\* stop with the context closed instead of suspended
stopCloses(w, t, ok) ==
    LET h == [w EXCEPT !.hist.life = IF @ = "Destroyed" THEN @ ELSE "Stopped",
                       !.hist.pauseWindow = FALSE]
    IN  IF w.context.state = "closed" THEN h
        ELSE IF t # "none" THEN disconnectNodes(w, t)
        ELSE [close(disconnectNodes(h, t)) EXCEPT !.self.recording = FALSE]

\* stop with the tracks of the held stream stopped and the reference cleared
stopStopsTracks(w, t, ok) ==
    LET h == [w EXCEPT !.hist.life = IF @ = "Destroyed" THEN @ ELSE "Stopped",
                       !.hist.pauseWindow = FALSE]
    IN  IF w.context.state = "closed" THEN h
        ELSE IF t # "none" THEN disconnectNodes(w, t)
        ELSE [suspend(disconnectNodes(h, t), ok) EXCEPT
                 !.graph.liveStreams = IF w.self.stream = Stream THEN @ - 1 ELSE @,
                 !.self.stream = Null,
                 !.self.recording = FALSE]

\* a stop() that throws leaves the history as it was: the call did not return
stop(w, t, ok) ==
    LET h == [w EXCEPT !.hist.life = IF @ = "Destroyed" THEN @ ELSE "Stopped",
                       !.hist.pauseWindow = FALSE]
    IN  IF w.context.state = "closed" THEN h
        ELSE IF t # "none" THEN disconnectNodes(w, t)
        ELSE [suspend(disconnectNodes(h, t), ok) EXCEPT !.self.recording = FALSE]

\* destroy with the stream reference kept and its tracks left running
destroyKeepsStream(w, t) ==
    IF t # "none" THEN disconnectNodes(w, t)
    ELSE LET w4 == disconnectNodes(w, t)
             w5 == IF w4.context.state # "closed" THEN close(w4) ELSE w4
             w6 == [w5 EXCEPT !.self.recording = FALSE,
                              !.hist.life = "Destroyed",
                              !.hist.pauseWindow = FALSE,
                              !.hist.destroys = @ + 1]
         IN  dispatchEvent(w6, "close")

destroy(w, t) ==
    IF t # "none" THEN disconnectNodes(w, t)
    ELSE LET w4 == disconnectNodes(w, t)
             w5 == IF w4.context.state # "closed" THEN close(w4) ELSE w4
             w6 == [w5 EXCEPT !.graph.liveStreams = IF w.self.stream = Stream
                                                    THEN @ - 1 ELSE @,
                              !.self.stream = Null,
                              !.self.recording = FALSE,
                              !.hist.life = "Destroyed",
                              !.hist.pauseWindow = FALSE,
                              !.hist.destroys = @ + 1]
         IN  dispatchEvent(w6, "close")

\* formatTimer with the sample rate of the stand-in context written in
formatTimerFixedRate(w) ==
    [dispatchEvent(w, "format") EXCEPT
        !.events.timer = FALSE,
        !.events.detail = [channels |-> 1, bitDepth |-> 32,
                           sampleRate |-> MockSampleRate,
                           signed |-> TRUE, float |-> TRUE]]

\* the constructor's setTimeout callback
formatTimer(w) ==
    [dispatchEvent(w, "format") EXCEPT
        !.events.timer = FALSE,
        !.events.detail = [channels |-> 1, bitDepth |-> 32,
                           sampleRate |-> w.context.sampleRate,
                           signed |-> TRUE, float |-> TRUE]]

\* the three block handlers share their shape: drop when not recording,
\* dispatch the block of len samples otherwise
onBlock(w, len) ==
    IF ~w.self.recording THEN w
    ELSE [dispatchEvent(w, "data") EXCEPT !.events.block = len]

\* a processing node is fed and pulled while the context runs
Producing(w, n) ==
    /\ w.context.state = "running"
    /\ <<n, Dest>> \in w.graph.edges
    /\ \E s \in w.graph.sources : <<s, n>> \in w.graph.edges

\* ---------------------------------------------------------- construction
\* typeof window === 'undefined' || (typeof process !== 'undefined' &&
\* process.versions != null && process.versions.node != null); o.process
\* says that the Node process object is there
isNodeEnvironment(o) == ~o.window \/ o.process

\* the constructor builds its stand-in context when it is given none and
\* finds no AudioContext class on a window
standIn(o) == ~o.context /\ ~(o.window /\ o.audioContext # "none")

\* bufferSize validated against the documented sizes
bufferSizeValidated(o) ==
    IF o.bufferSize \in ValidBufferSizes THEN o.bufferSize ELSE DefaultBufferSize

\* this.bufferSize = opts.bufferSize ?? 4096; Null is the option left out
bufferSize(o) == IF o.bufferSize = Null THEN DefaultBufferSize ELSE o.bufferSize

\* the options and environment facts a session can be constructed with; a
\* flag the code never reads in an environment is held at one value there.
\* o.audioContext is the AudioContext class of the window: none, the double
\* a test installs, or the platform's own; a window without the platform's
\* class is one of a Node process. Sessions given a bufferSize are those
\* without AudioWorklet, whose backends read it, on a context of their own.
\* The constructor keeps opts.context without recording that it was given
\* (lines 99-100), so a given context differs from a created one in nothing
\* the session does; sessions with a given context are those of a browser
\* without AudioWorklet
Options ==
    {o \in [window : BOOLEAN, process : BOOLEAN,
            audioContext : {"none", "mock", "real"}, audioWorklet : BOOLEAN,
            allowScriptProcessorFallback : BOOLEAN, stream : BOOLEAN,
            sourceFnThrows : BOOLEAN, context : BOOLEAN,
            bufferSize : BufferSizes \cup {Null},
            state : {"running", "suspended"}] :
        /\ ~o.window => o.audioContext = "none"
        /\ o.window /\ o.audioContext # "real" => o.process
        /\ standIn(o) => o.state = "running" /\ ~o.sourceFnThrows
        /\ o.context => ~isNodeEnvironment(o) /\ ~o.audioWorklet
        /\ o.bufferSize # Null =>
               ~o.context /\ (~o.audioWorklet \/ isNodeEnvironment(o))
        /\ isNodeEnvironment(o) => o.audioWorklet /\ o.allowScriptProcessorFallback
        /\ o.sourceFnThrows => o.audioWorklet /\ o.allowScriptProcessorFallback}

NoDetail == [channels |-> 0, bitDepth |-> 0, sampleRate |-> 0,
             signed |-> FALSE, float |-> FALSE]

\* 'if (opts.stream) this.setStream(opts.stream)' runs setStream up to its
\* first await before the constructor returns; hist.unheard counts the error
\* events dispatched by then, when no caller can have added a listener
constructor(o, createThrows, resumeOk) ==
    LET w == [opts |-> [window |-> o.window,
                        process |-> o.process,
                        audioContext |-> o.audioContext,
                        isNodeEnvironment |-> isNodeEnvironment(o),
                        workletSupported |-> ~isNodeEnvironment(o) /\ o.audioWorklet,
                        allowScriptProcessorFallback |-> o.allowScriptProcessorFallback,
                        sourceFnThrows |-> o.sourceFnThrows,
                        standIn |-> standIn(o),
                        bufferSizeOption |-> o.bufferSize,
                        bufferSize |-> bufferSize(o),
                        suppliedContext |-> o.context],
              self |-> [audioInput |-> Null, stream |-> Null, processor |-> Null,
                        workletNode |-> Null, recording |-> TRUE],
              context |-> [id |-> ConstructedContext,
                           state |-> o.state,
                           sampleRate |-> IF o.audioContext # "real" THEN MockSampleRate
                                          ELSE HardwareSampleRate],
              graph |-> [sources |-> {}, procs |-> {}, worklets |-> {},
                         edges |-> {}, intervals |-> 0, liveStreams |-> 0],
              port |-> <<>>,
              calls |-> [c \in CallIds |-> "new"],
              events |-> [format |-> 0, data |-> 0, block |-> 0, error |-> 0, close |-> 0,
                          timer |-> TRUE, detail |-> NoDetail, message |-> NoError],
              hist |-> [life |-> "Idle", pauseWindow |-> FALSE, destroys |-> 0,
                        closes |-> 0, unheard |-> 0, thrown |-> NoError]]
        w1 == collect(setStream(w, 1, createThrows, resumeOk))
    IN  IF o.stream THEN [w1 EXCEPT !.hist.unheard = w1.events.error] ELSE w

Is(w) ==
    /\ opts = w.opts /\ self = w.self /\ context = w.context /\ graph = w.graph
    /\ port = w.port /\ calls = w.calls /\ events = w.events /\ hist = w.hist

\* the outcomes of the platform calls a step makes are inputs; an outcome the
\* step does not consult is held at one value
Consulted(state, createThrows, resumeOk) ==
    /\ state = "suspended" => ~createThrows
    /\ state # "suspended" => resumeOk

Init ==
    \E o \in Options, createThrows \in BOOLEAN, resumeOk \in BOOLEAN :
        /\ Consulted(o.state, createThrows, resumeOk)
        /\ ~o.stream => ~createThrows /\ resumeOk
        /\ Is(constructor(o, createThrows, resumeOk))

\* ---------------------------------------------------------------- actions
Commit(w) ==
    /\ w.events.data <= MaxData
    /\ w.hist.destroys <= MaxDestroy
    /\ opts' = w.opts /\ self' = w.self /\ context' = w.context /\ graph' = collect(w).graph
    /\ port' = w.port /\ calls' = w.calls /\ events' = w.events /\ hist' = w.hist

SetStream(c) ==
    /\ calls[c] = "new"
    /\ \A d \in CallIds : d < c => calls[d] # "new"
    /\ \E createThrows \in BOOLEAN, resumeOk \in BOOLEAN :
          /\ Consulted(context.state, createThrows, resumeOk)
          /\ Commit(setStream(World, c, createThrows, resumeOk))

ResumeSettles(c) ==
    /\ calls[c] \in {"resume", "resumeRejects"}
    /\ \E createThrows \in BOOLEAN, resumeOk \in BOOLEAN :
          /\ calls[c] = "resumeRejects" \/ createThrows \/ context.state # "suspended"
                => resumeOk
          /\ calls[c] = "resumeRejects" => ~createThrows
          /\ Commit(resumed(World, c, calls[c] = "resume", createThrows, resumeOk))

WorkletResumeSettles(c) ==
    /\ calls[c] \in {"workletResume", "workletResumeRejects"}
    /\ Commit(workletResumed(World, c, calls[c] = "workletResume"))

AddModuleSettles(c) ==
    /\ calls[c] = "addModule"
    /\ \E ok \in BOOLEAN, nodeOk \in BOOLEAN :
          /\ ~ok => nodeOk
          /\ Commit(moduleAdded(World, c, ok, nodeOk))

PauseRecording == \E w \in {pauseRecording(World)} : Commit(w)

ResumeRecording == \E w \in {resumeRecording(World)} : Commit(w)

\* stop() with the outcomes of its platform calls; sessions with a
\* suspend() that is refused are those of a browser without AudioWorklet,
\* on a running context
StopWith(t, ok) ==
    /\ CanThrow(World, t)
    /\ t # "none" => context.state # "closed"
    /\ ~ok => /\ t = "none"
              /\ ~opts.workletSupported /\ ~opts.standIn
              /\ context.state = "running"
    /\ Commit(stop(World, t, ok))

Stop == \E t \in ThrowAt, ok \in BOOLEAN : StopWith(t, ok)

Destroy == \E t \in ThrowAt : CanThrow(World, t) /\ Commit(destroy(World, t))

FormatTimer == events.timer /\ Commit(formatTimer(World))

\* setInterval callback; the 0 ms format timer of the constructor is due
\* before any 100 ms interval can be
MockTick ==
    /\ graph.intervals > 0
    /\ ~events.timer
    /\ Commit(onBlock(World, opts.bufferSize))

\* onaudioprocess of script processor n
AudioProcess(n) ==
    /\ n \in graph.procs
    /\ Producing(World, n)
    /\ Commit(onBlock(World, opts.bufferSize))

\* process() of the worklet processor behind node n: port.postMessage(input)
WorkletProcess(n) ==
    /\ n \in graph.worklets
    /\ Producing(World, n)
    /\ events.data + Len(port) < MaxData
    /\ port' = Append(port, [paused |-> hist.pauseWindow, detached |-> FALSE])
    /\ UNCHANGED <<opts, self, context, graph, calls, events, hist>>

\* workletNode.port.onmessage
WorkletMessage ==
    /\ port # <<>>
    /\ Commit(onBlock([World EXCEPT !.port = Tail(@)], RenderQuantum))

Next ==
    \/ \E c \in CallIds : SetStream(c)
    \/ \E c \in CallIds : ResumeSettles(c)
    \/ \E c \in CallIds : WorkletResumeSettles(c)
    \/ \E c \in CallIds : AddModuleSettles(c)
    \/ PauseRecording
    \/ ResumeRecording
    \/ Stop
    \/ Destroy
    \/ FormatTimer
    \/ MockTick
    \/ \E n \in NodeIds : AudioProcess(n)
    \/ \E n \in NodeIds : WorkletProcess(n)
    \/ WorkletMessage

Spec == Init /\ [][Next]_vars

\* ----------------------------------------------------------------- claims
ProcessingNodes == graph.procs \cup graph.worklets

Connected(n) == \E e \in graph.edges : e[1] = n \/ e[2] = n

\* the session as the caller sees it: attached by a setStream() that
\* resolved, and not paused, stopped or destroyed since
Active == hist.life = "Attached" /\ ~hist.pauseWindow /\ hist.destroys = 0

\* C1: a setStream() call made while another call on the session is still
\* pending is rejected, so at most one attach proceeds at a time
AttachInProgressRejected ==
    [][\A c \in CallIds :
          (/\ calls[c] = "new"
           /\ calls'[c] # "new"
           /\ \E d \in CallIds : calls[d] \in Pending)
          => calls'[c] = "rejected"]_vars

\* C2: at most one processing node created by the session is connected
AtMostOneProcessingNode ==
    Cardinality({n \in ProcessingNodes : Connected(n)}) <= 1

\* C3: once destroy() has been called, a setStream() call made afterwards
\* fails and no data event is dispatched any more
DestroyIsTerminal ==
    [][hist.destroys > 0 =>
          /\ events'.data = events.data
          /\ \A c \in CallIds :
                calls[c] = "new" /\ calls'[c] # "new" => calls'[c] = "rejected"]_vars

\* C4: after stop(), a setStream() that resolves leaves the session
\* delivering blocks, with no resumeRecording() needed
ReattachIsActive == Active => self.recording

\* C5: a block the backend produced inside a pause window is never
\* delivered as a data event
NoPausedBlockDelivered ==
    [][events'.data > events.data =>
          ~(IF port' # port THEN Head(port).paused ELSE hist.pauseWindow)]_vars

\* C6: a data event is dispatched only while the session is Active
DataOnlyWhileActive == [][events'.data > events.data => Active]_vars

\* C7: close is dispatched exactly once if destroy() was called, however
\* often, and never otherwise
CloseExactlyOnce == events.close = (IF hist.destroys > 0 THEN 1 ELSE 0)

\* C8: once close has been dispatched, no format, data or error event is
\* dispatched
CloseIsLast ==
    [][events.close > 0 =>
          /\ events'.format = events.format
          /\ events'.data = events.data
          /\ events'.error = events.error]_vars

\* C9: the format event is dispatched exactly once per session: never
\* inside the constructor (none while the constructor's timer is due), once
\* by that timer, which nothing but its own callback takes away, and never
\* again whatever setStream, stop or re-attach follows; it carries the
\* context's sample rate and channels=1, bitDepth=32, signed, float
FormatExactlyOnce ==
    /\ events.format = (IF events.timer THEN 0 ELSE 1)
    /\ events.detail = (IF events.timer THEN NoDetail
                        ELSE [channels |-> 1, bitDepth |-> 32,
                              sampleRate |-> context.sampleRate,
                              signed |-> TRUE, float |-> TRUE])

\* C9 witness: the format event was dispatched, and the session was then
\* stopped and attached again
FormatOnceAcrossReattach ==
    /\ events.format = 1
    /\ \A c \in CallIds : calls[c] = "resolved"
    /\ hist.life = "Attached"
    /\ self.audioInput \in NodeIds
    /\ ~self.recording /\ ~hist.pauseWindow /\ hist.destroys = 0
    /\ context.sampleRate = HardwareSampleRate

\* C10: no data event is dispatched before the format event
FormatPrecedesData == events.data > 0 => events.format > 0

\* a call that is over, a call that ends in this step, and the pcs of a call
\* suspended inside setupAudioWorklet
Settled == {"resolved", "rejected"}

Settles(c) == calls[c] \notin Settled /\ calls'[c] \in Settled

WorkletPhase == {"workletResume", "workletResumeRejects", "addModule"}

\* this step created the source node, or continues a call that had: the call
\* running in it has come to the choice of a backend
ChoosesBackend(c) ==
    \/ calls[c] \in WorkletPhase
    \/ self'.audioInput \in NodeIds /\ self'.audioInput # self.audioInput

\* node n is fed by the session's source node and drives the destination
Built(sf, g, n) ==
    /\ n \in NodeIds
    /\ <<sf.audioInput, n>> \in g.edges
    /\ <<n, Dest>> \in g.edges

\* this step created the session's worklet node, or its script processor,
\* and connected it
WorkletBuilt == self'.workletNode # self.workletNode /\ Built(self', graph', self'.workletNode)

ProcessorBuilt == self'.processor # self.processor /\ Built(self', graph', self'.processor)

FallbackResolves ==
    [][opts.allowScriptProcessorFallback /\ opts.workletSupported =>
          \A c \in CallIds :
             Settles(c) /\ ChoosesBackend(c) /\ ~WorkletBuilt =>
                /\ calls'[c] = "resolved"
                /\ events'.error = events.error
                /\ self'.audioInput # Null => ProcessorBuilt]_vars

\* C12 witness: a script processor attached where AudioWorklet is supported
FellBackToScriptProcessor ==
    /\ opts.allowScriptProcessorFallback /\ opts.workletSupported
    /\ Built(self, graph, self.processor)
    /\ \E c \in CallIds : calls[c] = "resolved"
    /\ events.error = 0

\* C13: every setStream() call that rejected dispatched exactly one error
\* event, which carries the error the call rejected with, and a call that
\* resolved dispatched none
ErrorPerRejection ==
    /\ events.error = Cardinality({c \in CallIds : calls[c] = "rejected"})
    /\ events.message = hist.thrown

\* C13 witness: one call rejected, another resolved, one error event
OneRejectedOneResolved ==
    /\ \E c \in CallIds : calls[c] = "rejected"
    /\ \E c \in CallIds : calls[c] = "resolved"
    /\ events.error = 1
    /\ events.message = PlatformError

\* C14: no operation closes a context the caller supplied, and destroy()
\* closes a context the session created
SuppliedContextNeverClosed ==
    [][/\ opts.suppliedContext =>
             ~(context.state # "closed" /\ context'.state = "closed")
       /\ ~opts.suppliedContext /\ ~opts.standIn /\ hist'.destroys > hist.destroys =>
             context'.state = "closed"]_vars

\* C15: when destroy() returns, the tracks of every stream passed to the
\* session so far, by the constructor or by setStream(), are stopped
EveryTrackStopped ==
    [][hist'.destroys > hist.destroys =>
          graph'.liveStreams = 0]_vars

\* the nodes the session refers to
Held(sf) == {sf.audioInput, sf.processor, sf.workletNode} \cap NodeIds

\* no call is suspended at an await
NoAttachInFlight == \A c \in CallIds : calls[c] \notin Pending

\* C16: a destroy() that returns, called with no attach in flight, leaves
\* every node the session held disconnected and its reference null, the
\* context closed, the tracks of the held stream stopped, the stream
\* reference cleared and recording false
DestroyReleasesEverything ==
    [][NoAttachInFlight /\ hist'.destroys > hist.destroys =>
          /\ \A n \in Held(self) : \A e \in graph'.edges : e[1] # n
          /\ self'.audioInput = Null /\ self'.processor = Null
          /\ self'.workletNode = Null
          /\ ~opts.standIn => context'.state = "closed"
          /\ self.stream = Stream => graph'.liveStreams = graph.liveStreams - 1
          /\ self'.stream = Null
          /\ ~self'.recording]_vars

\* C16 witness: a session attached to a stream in a browser was destroyed
\* once: nothing is connected, the context is closed, the stream is stopped
DestroyedAfterAttach ==
    /\ ~opts.isNodeEnvironment
    /\ calls[1] = "resolved"
    /\ NoAttachInFlight
    /\ hist.destroys = 1
    /\ graph.edges = {} /\ Held(self) = {}
    /\ context.state = "closed"
    /\ calls[2] = "new" /\ graph.liveStreams = 0 /\ self.stream = Null
    /\ ~self.recording

\* a stop() that returns, called on a session whose context is not closed
\* and does not refuse to suspend
StopReturns == context.state # "closed" /\ StopWith("none", TRUE)

\* C17: a stop() that returns, on a context that is not closed, leaves every
\* node the session held disconnected and its reference null, the context
\* suspended and not closed, and recording false
StopSuspends ==
    [][StopReturns =>
          /\ \A n \in Held(self) : \A e \in graph'.edges : e[1] # n
          /\ self'.audioInput = Null /\ self'.processor = Null
          /\ self'.workletNode = Null
          /\ ~opts.standIn => context'.state = "suspended"
          /\ context'.state # "closed"
          /\ ~self'.recording]_vars

\* C17 witness: a session attached to a stream in a browser was stopped:
\* nothing is held or connected and the context that ran is suspended
StoppedAfterAttach ==
    /\ ~opts.isNodeEnvironment
    /\ calls[1] = "resolved"
    /\ NoAttachInFlight
    /\ hist.life = "Stopped"
    /\ graph.edges = {} /\ Held(self) = {}
    /\ context.state = "suspended"
    /\ ~self.recording

\* C18: a disconnect() that throws does not block a teardown: every stop()
\* on a context that is not closed and every destroy() ends with no node
\* held or connected and the context suspended (stop) or closed (destroy),
\* and a destroy() stops the tracks of the held stream and dispatches close
TeardownNeverBlocked ==
    [][/\ (\E t \in ThrowAt : StopWith(t, TRUE)) /\ context.state # "closed" =>
             /\ Held(self') = {}
             /\ \A n \in Held(self) : \A e \in graph'.edges : e[1] # n
             /\ ~opts.standIn => context'.state = "suspended"
       /\ Destroy =>
             /\ Held(self') = {}
             /\ \A n \in Held(self) : \A e \in graph'.edges : e[1] # n
             /\ ~opts.standIn => context'.state = "closed"
             /\ self.stream = Stream => graph'.liveStreams = graph.liveStreams - 1
             /\ events'.close = events.close + 1]_vars

\* C19: a session whose setStream() calls have all rejected holds no source
\* node, no processing node and no synthetic generator
RejectedAttachHoldsNothing ==
    (/\ \E c \in CallIds : calls[c] = "rejected"
     /\ \A c \in CallIds : calls[c] \in {"new", "rejected"})
        => /\ self.audioInput = Null
           /\ self.processor = Null
           /\ self.workletNode = Null
           /\ graph.intervals = 0

\* the backends the session holds: its worklet node, its script processor
\* and the intervals of the synthetic generator
BackendCount ==
    (IF self.workletNode \in NodeIds THEN 1 ELSE 0)
        + (IF self.processor \in NodeIds THEN 1 ELSE 0)
        + graph.intervals

\* C20: with no attach in flight, a session attached by setStream() calls
\* that all resolved, and not stopped or destroyed since, holds a source
\* node and exactly one backend; a session never attached, stopped or
\* destroyed holds no backend
ExactlyOneBackend ==
    NoAttachInFlight /\ (\A c \in CallIds : calls[c] # "rejected") =>
        IF hist.life = "Attached"
        THEN self.audioInput # Null /\ BackendCount = 1
        ELSE BackendCount = 0

\* C21: a block that a worklet posted before the session detached that
\* worklet is never delivered as a data event
DetachedBlockDiscarded ==
    [][port # <<>> /\ Head(port).detached /\ port' = Tail(port)
          => events'.data = events.data]_vars

\* C22: a setStream() called on a session whose context is closed leaves
\* the session with a context that is not closed
ClosedContextReplaced ==
    [][\A c \in CallIds :
          calls[c] = "new" /\ calls'[c] # "new" /\ context.state = "closed"
              => context'.state # "closed"]_vars

\* C23: in every state, pauseRecording() twice leaves the session as
\* pauseRecording() once does, resumeRecording() twice as resumeRecording()
\* once does, and pauseRecording() then resumeRecording() leaves recording
\* true
PauseResumeIdempotent ==
    /\ pauseRecording(pauseRecording(World)) = pauseRecording(World)
    /\ resumeRecording(resumeRecording(World)) = resumeRecording(World)
    /\ resumeRecording(pauseRecording(World)).self.recording

\* C23 witness: an attached session paused by pauseRecording(), on which a
\* second pauseRecording() changes nothing
PausedWhileAttached ==
    /\ hist.life = "Attached"
    /\ hist.pauseWindow /\ ~self.recording
    /\ pauseRecording(World) = World

\* C24: no synthetic generator runs in a session constructed where a
\* window with the platform's AudioContext exists
SyntheticOnlyWithoutAudio ==
    graph.intervals > 0 => ~(opts.window /\ opts.audioContext = "real")

\* C25: every data event carries a block of exactly bufferSize samples
BlockIsBufferSize == events.data > 0 => events.block = opts.bufferSize

SuspendFailureSurfaced ==
    [][StopWith("none", FALSE) => events'.error = events.error + 1]_vars

\* C28: as long as destroy() has not closed it, the context of the session
\* is the one the constructor stored, whatever stop() and setStream() calls
\* were made
ContextKept == hist.destroys = 0 => context.id = ConstructedContext

\* C28 witness: a session stopped and then attached again in a browser, on
\* the context of its construction: recording is still false from stop()
AttachedAgainAfterStop ==
    /\ ~opts.isNodeEnvironment
    /\ hist.life = "Attached" /\ hist.destroys = 0
    /\ ~self.recording /\ ~hist.pauseWindow
    /\ Held(self) # {}
    /\ context.state = "running"
    /\ context.id = ConstructedContext

\* C29: a stop() that returns on a recording session dispatches a close
\* event
StopDispatchesClose ==
    [][self.recording /\ (\E ok \in BOOLEAN : StopWith("none", ok))
          => events'.close = events.close + 1]_vars

\* C30: a setStream() whose context.resume() is refused changes neither the
\* stream, the source node, the processing nodes nor their connections,
\* when it is called and when the refusal arrives; it then rejects and one
\* error event is dispatched
ResumeFailureAborts ==
    [][\A c \in CallIds :
          /\ calls[c] = "new" /\ calls'[c] = "resumeRejects" =>
                /\ self' = self
                /\ graph'.edges = graph.edges
                /\ events'.error = events.error
          /\ calls[c] = "resumeRejects" /\ calls'[c] # "resumeRejects" =>
                /\ calls'[c] = "rejected"
                /\ events'.error = events.error + 1
                /\ self' = self
                /\ graph'.edges = graph.edges]_vars

\* C30 witness: the only call made on a session rejected because resume()
\* was refused: one error event, no stream, no node, context still suspended
RejectedByResume ==
    /\ ~opts.isNodeEnvironment /\ ~opts.sourceFnThrows
    /\ calls[1] = "rejected" /\ calls[2] = "new"
    /\ events.error = 1 /\ events.message = PlatformError
    /\ self.stream = Null /\ Held(self) = {}
    /\ context.state = "suspended"
    /\ hist.life = "Idle"

\* C31: no step creates a script processor on a context that is closed
NoProcessorOnClosedContext ==
    [][self'.processor \in NodeIds /\ self'.processor # self.processor
          => context.state # "closed"]_vars
\* C32: over any sequence of stop() and destroy() calls, a node that a
\* teardown disconnects is dropped by the session and no node comes back to
\* it, so each node is disconnected at most once; close() is called on the
\* context at most once; and a stop() after a stop(), or after a destroy(),
\* leaves the session as that first call left it
TeardownIdempotent ==
    /\ [][Stop \/ Destroy =>
             /\ \A n \in Held(self) \ Held(self') :
                    \A e \in graph'.edges : e[1] # n
             /\ Held(self') \subseteq Held(self)]_vars
    /\ [][Held(self') \ Held(self) \subseteq
             NodeIds \ (graph.sources \cup graph.procs \cup graph.worklets)]_vars
    /\ [](hist.closes <= 1)
    /\ [](/\ stop(stop(World, "none", TRUE), "none", TRUE) = stop(World, "none", TRUE)
          /\ stop(destroy(World, "none"), "none", TRUE) = destroy(World, "none"))

\* C33: a stop() that returns, in any state of the session and of its
\* context, a closed context included, leaves every node the session held
\* disconnected and the three node references null
StopFromAnyState ==
    [][(\E ok \in BOOLEAN : StopWith("none", ok)) =>
          /\ \A n \in Held(self) : \A e \in graph'.edges : e[1] # n
          /\ self'.audioInput = Null /\ self'.processor = Null
          /\ self'.workletNode = Null]_vars

\* C34: at most one interval of the synthetic generator is live in a
\* session, and none is live when a stop() or a destroy() has returned
OneSyntheticGenerator ==
    /\ [](graph.intervals <= 1)
    /\ [][(\E ok \in BOOLEAN : StopWith("none", ok)) \/ hist'.destroys > hist.destroys
             => graph'.intervals = 0]_vars

\* C35: outside the Node/test environment, a setStream() call that resolves
\* leaves the session holding a source node with a processing node built on
\* it, whatever was called while the call was suspended
ResolvedHoldsSource ==
    [][~opts.isNodeEnvironment =>
          \A c \in CallIds :
             calls[c] # "resolved" /\ calls'[c] = "resolved" =>
                /\ self'.audioInput \in NodeIds
                /\ \/ Built(self', graph', self'.processor)
                   \/ Built(self', graph', self'.workletNode)]_vars

\* C36: a setStream() call that was suspended when destroy() was called
\* (a context that destroy() closed suspends no later call) settles with the
\* session holding no stream, no source node and no processing node, and
\* with the tracks of its stream stopped: of the streams passed so far, one
\* at least is not live
DestroyedDuringAttach ==
    [][\A c \in CallIds :
          calls[c] \in Pending /\ calls'[c] \in Settled /\ hist.destroys > 0 =>
             /\ self'.stream = Null
             /\ self'.audioInput = Null
             /\ self'.processor = Null /\ self'.workletNode = Null
             /\ graph'.liveStreams < Cardinality({d \in CallIds : calls'[d] # "new"})]_vars

\* C37: every error event of the attach that the constructor starts is
\* dispatched after the constructor has returned, where a listener added
\* right after construction receives it
ConstructorErrorObserved == hist.unheard = 0

\* C38: a stop(), whether it returns or throws, keeps the session's stream
\* reference and stops no track; the tracks of a stream are stopped by no
\* step but a destroy() that returns
StopKeepsStream ==
    /\ [][Stop => /\ self'.stream = self.stream
                  /\ graph'.liveStreams = graph.liveStreams]_vars
    /\ [][graph'.liveStreams < graph.liveStreams
             => hist'.destroys > hist.destroys]_vars

\* C38 witness: a session attached to one stream in a browser was stopped:
\* no node is held, the stream is, and its tracks are live
StoppedHoldsLiveStream ==
    /\ ~opts.isNodeEnvironment
    /\ calls[1] = "resolved" /\ calls[2] = "new"
    /\ hist.life = "Stopped" /\ hist.destroys = 0
    /\ Held(self) = {} /\ ~self.recording
    /\ self.stream = Stream
    /\ graph.liveStreams = 1
====
